---------------------------- MODULE Spec2Model ----------------------------
(***************************************************************************)
(* P2P-LLM-Chat-Go: the Directory service (go/cmd/directory/main.go) and   *)
(* the P2P node (go/cmd/node/main.go).                                     *)
(*                                                                         *)
(* Four specifications share the state:                                    *)
(*   SpecDirectory  the directory's HTTP handlers run as concurrent        *)
(*                  goroutines, one step per lock operation / memory       *)
(*                  access of memStore;                                    *)
(*   SpecInbox      one serving node's Inbox under concurrent stream       *)
(*                  handlers and GET /inbox requests, one step per lock    *)
(*                  operation / memory access of Inbox;                    *)
(*   SpecNode       two serving nodes: their POST /send handlers step by   *)
(*                  step next to the lock-level stream handlers and a      *)
(*                  GET /inbox;                                            *)
(*   Spec           the whole system (directory, nodes, transport), one    *)
(*                  step per blocking point of main, of POST /send and of  *)
(*                  the stream handler; FairSpec adds the fairness the Go  *)
(*                  scheduler gives the stream handlers.                   *)
(*                                                                         *)
(* record.Last and ChatMessage.Timestamp are written and never read by any *)
(* handler decision; they are left out of the records.                     *)
(***************************************************************************)
EXTENDS Integers, Sequences, FiniteSets, TLC

\* ------------------------------------------------------------------ bounds
\* directory HTTP requests served in a run of SpecDirectory
MaxDReqs == 3

\* inbound streams of a node in a run of SpecInbox
MaxStreams == 2
\* GET /inbox requests in a run of SpecInbox
MaxDrains == 2
\* POST /send requests in a run of Spec
MaxSends == 2

DReqs == 1 .. MaxDReqs
Streams == 1 .. MaxStreams
Drains == 1 .. MaxDrains
Sends == 1 .. MaxSends

\* the node processes and their configuration (MYNAMEIS)
Nodes == {"n1", "n2"}

\* ----------------------------------------------------------- input values
\* A username is the sequence of its pieces: a piece is a run of plain
\* characters or one character that is special in a URL query ("&", "#").
\* NoName is the empty string "".
NoName == <<>>
alice == <<"alice">>
bob == <<"bob">>
carol == <<"carol">>

\* usernames a directory client may put in a request
Usernames == {alice, bob}
UsernameInputs == Usernames \cup {NoName}

\* (peer_id, addrs) pairs a /register body may carry; "" is the empty field
PeerBodies ==
  { [peer_id |-> "Qm1", addrs |-> <<"a1">>],
    [peer_id |-> "Qm2", addrs |-> <<"a2", "a3">>],
    [peer_id |-> "",    addrs |-> <<"a1">>] }

VARIABLES
  data,     \* memStore.data: [isNil, m], m the map username -> record
  mu,       \* memStore.mu: [writer, readers]
  dreq,     \* the directory's in-flight HTTP requests (one goroutine each)
  lastReg,  \* history: username -> body of the last register whose set took effect
  queue,    \* Inbox.queue of each node
  imu,      \* Inbox.mu of each node: TRUE when held
  streams,  \* chat streams: the wire payload and the receiving handler goroutine
  ireq,     \* in-flight GET /inbox requests (one goroutine each)
  pushOrder,\* history: per node, the streams in the order their push took effect
  node,     \* main of each node process: [pc]
  sends,    \* in-flight POST /send requests (one goroutine each)
  nextId    \* the number of ids uuid.NewString has produced

dirVars == <<data, mu, dreq, lastReg>>
inboxVars == <<queue, imu, streams, ireq, pushOrder>>
nodeVars == <<node, sends, nextId>>
vars == <<data, mu, dreq, lastReg, queue, imu, streams, ireq, pushOrder,
          node, sends, nextId>>

\* ------------------------------------------------------- directory: store
\* type record struct { PeerID; Addrs; Last }
record(p, a) == [PeerID |-> p, Addrs |-> a]

\* the zero value of record (what a freshly inserted map slot holds)
zeroRecord == record("", <<>>)

\* &memStore{}: data is the nil map, the lock is free
memStore == [data |-> [isNil |-> TRUE, m |-> <<>>],
             mu   |-> [writer |-> FALSE, readers |-> 0]]

\* sync.RWMutex.Lock can be taken: no writer, no reader
CanLock(m) == ~m.writer /\ m.readers = 0

\* a read lock that does not wait for the writer
CanRLockAlways(m) == TRUE

\* sync.RWMutex.RLock can be taken: no writer
CanRLock(m) == ~m.writer

\* a set that allocates a fresh map on every call
makeAlways(d) == [isNil |-> FALSE, m |-> <<>>]

\* if s.data == nil { s.data = map[string]record{} }
makeIfNil(d) == IF d.isNil THEN [isNil |-> FALSE, m |-> <<>>] ELSE d

\* s.data[username] = rec, first half: the slot for the key is found or
\* inserted (zero value) and the PeerID word is stored
assignPeerID(d, username, rec) ==
  LET d1  == makeIfNil(d)
      old == IF username \in DOMAIN d1.m THEN d1.m[username] ELSE zeroRecord
  IN  [d1 EXCEPT !.m = (username :> [old EXCEPT !.PeerID = rec.PeerID]) @@ d1.m]

\* a store that appends the new addresses to the ones already recorded
assignAddrsMerging(d, username, rec) ==
  [d EXCEPT !.m[username].Addrs = @ \o rec.Addrs]

\* s.data[username] = rec, second half: the Addrs word is stored
assignAddrs(d, username, rec) ==
  [d EXCEPT !.m[username].Addrs = rec.Addrs]

\* memStore.set, the whole critical section
set(d, username, rec) == assignAddrs(assignPeerID(d, username, rec), username, rec)

\* a lookup that reports every username as present
getAlwaysOk(d, username) ==
  [rec |-> IF username \in DOMAIN d.m THEN d.m[username] ELSE zeroRecord,
   ok  |-> TRUE]

\* memStore.get: rec, ok := s.data[username] (a nil map reads as empty)
get(d, username) ==
  IF username \in DOMAIN d.m
    THEN [rec |-> d.m[username], ok |-> TRUE]
    ELSE [rec |-> zeroRecord, ok |-> FALSE]

\* ---------------------------------------------------- directory: handlers
NoResp == [status |-> 0, peer_id |-> "", addrs |-> <<>>]

DReqIdle == [pc |-> "idle", op |-> "none", username |-> NoName, peer_id |-> "",
             addrs |-> <<>>, rec |-> zeroRecord, ok |-> FALSE, resp |-> NoResp]

\* a validation that lets an empty peer_id through
registerValidNoPeerCheck(username, peer_id) == username # NoName

\* POST /register: if body.Username == "" || body.PeerID == "" -> 400
registerValid(username, peer_id) == ~(username = NoName \/ peer_id = "")

\* POST /register up to the call of store.set: BindJSON, validation
RegisterRecv(r, bindOK, username, pb) ==
  /\ dreq[r].pc = "idle"
  /\ IF ~bindOK
       THEN dreq' = [dreq EXCEPT ![r] = [@ EXCEPT !.pc = "done", !.op = "register",
                                                   !.resp.status = 400]]
       ELSE IF ~registerValid(username, pb.peer_id)
         THEN dreq' = [dreq EXCEPT ![r] = [@ EXCEPT !.pc = "done", !.op = "register",
                          !.username = username, !.peer_id = pb.peer_id,
                          !.addrs = pb.addrs, !.resp.status = 400]]
         ELSE dreq' = [dreq EXCEPT ![r] = [@ EXCEPT !.pc = "set_lock", !.op = "register",
                          !.username = username, !.peer_id = pb.peer_id,
                          !.addrs = pb.addrs]]
  /\ UNCHANGED <<data, mu, lastReg>>
  /\ UNCHANGED <<inboxVars, nodeVars>>

\* memStore.set: s.mu.Lock()
setLock(r) ==
  /\ dreq[r].pc = "set_lock"
  /\ CanLock(mu)
  /\ mu' = [mu EXCEPT !.writer = TRUE]
  /\ dreq' = [dreq EXCEPT ![r].pc = "set_assign"]
  /\ UNCHANGED <<data, lastReg>>
  /\ UNCHANGED <<inboxVars, nodeVars>>

\* memStore.set: nil check and the first word of s.data[username] = rec
setAssign(r) ==
  /\ dreq[r].pc = "set_assign"
  /\ data' = assignPeerID(data, dreq[r].username, record(dreq[r].peer_id, dreq[r].addrs))
  /\ dreq' = [dreq EXCEPT ![r].pc = "set_assign2"]
  /\ UNCHANGED <<mu, lastReg>>
  /\ UNCHANGED <<inboxVars, nodeVars>>

\* memStore.set: the rest of s.data[username] = rec, the deferred Unlock, and
\* the handler's c.JSON(200, {"ok": true})
setUnlock(r) ==
  /\ dreq[r].pc = "set_assign2"
  /\ data' = assignAddrs(data, dreq[r].username, record(dreq[r].peer_id, dreq[r].addrs))
  /\ mu' = [mu EXCEPT !.writer = FALSE]
  /\ lastReg' = (dreq[r].username :> record(dreq[r].peer_id, dreq[r].addrs)) @@ lastReg
  /\ dreq' = [dreq EXCEPT ![r] = [@ EXCEPT !.pc = "done", !.resp.status = 200]]
  /\ UNCHANGED <<inboxVars, nodeVars>>

\* GET /lookup up to the call of store.get: the username query parameter
LookupRecv(r, username) ==
  /\ dreq[r].pc = "idle"
  /\ IF username = NoName
       THEN dreq' = [dreq EXCEPT ![r] = [@ EXCEPT !.pc = "done", !.op = "lookup",
                                                   !.resp.status = 400]]
       ELSE dreq' = [dreq EXCEPT ![r] = [@ EXCEPT !.pc = "get_rlock", !.op = "lookup",
                                                   !.username = username]]
  /\ UNCHANGED <<data, mu, lastReg>>
  /\ UNCHANGED <<inboxVars, nodeVars>>

\* memStore.get: s.mu.RLock()
getRLock(r) ==
  /\ dreq[r].pc = "get_rlock"
  /\ CanRLock(mu)
  /\ mu' = [mu EXCEPT !.readers = @ + 1]
  /\ dreq' = [dreq EXCEPT ![r].pc = "get_read"]
  /\ UNCHANGED <<data, lastReg>>
  /\ UNCHANGED <<inboxVars, nodeVars>>

\* the /lookup response for what store.get returned
lookupResp(g) ==
  IF ~g.ok THEN [status |-> 404, peer_id |-> "", addrs |-> <<>>]
           ELSE [status |-> 200, peer_id |-> g.rec.PeerID, addrs |-> g.rec.Addrs]

\* memStore.get: the map read, the deferred RUnlock, and the handler's reply
getRead(r) ==
  /\ dreq[r].pc = "get_read"
  /\ LET g == get(data, dreq[r].username)
     IN  dreq' = [dreq EXCEPT ![r] = [@ EXCEPT !.pc = "done", !.rec = g.rec,
                                               !.ok = g.ok, !.resp = lookupResp(g)]]
  /\ mu' = [mu EXCEPT !.readers = @ - 1]
  /\ UNCHANGED <<data, lastReg>>
  /\ UNCHANGED <<inboxVars, nodeVars>>

\* ------------------------------------------------------------ node: Inbox
\* proto.ChatMessage as node/main.go builds and reads it
ChatMessage(id, from, to, content) ==
  [ID |-> id, FromUser |-> from, ToUser |-> to, Content |-> content]

zeroMessage == ChatMessage("", NoName, NoName, "")

\* json.Marshal(msg): the bytes written on the stream
Marshal(m) == [kind |-> "json", msg |-> m]

\* bytes that are no JSON document of a ChatMessage
garbage == [kind |-> "garbage", msg |-> zeroMessage]

\* a stream reset before its end: io.ReadAll returns an error
reset == [kind |-> "reset", msg |-> zeroMessage]

\* io.ReadAll(bufio.NewReader(s))
ReadAll(w) == [err |-> w.kind = "reset", data |-> w]

\* a decoder whose error check is inverted
UnmarshalInverted(w) == [err |-> w.kind = "json", msg |-> w.msg]

\* a decoder that accepts every payload
UnmarshalLenient(w) == [err |-> FALSE, msg |-> w.msg]

\* json.Unmarshal(data, &msg)
Unmarshal(w) == [err |-> w.kind # "json", msg |-> w.msg]

\* inbox := &Inbox{}
Inbox == [queue |-> <<>>, mu |-> FALSE]

\* a lock that never waits
CanLockInboxAlways(held) == TRUE

\* sync.Mutex.Lock can be taken
CanLockInbox(held) == ~held

\* a push that puts the message in front
PushFront(q, m) == <<m>> \o q

\* Inbox.Push: i.queue = append(i.queue, m)
Push(q, m) == Append(q, m)

\* the positions of q whose message has the id `after`
Matches(q, after) == {i \in 1 .. Len(q) : q[i].ID = after}

\* Inbox.Drain, the loop: every message with the id `after` is skipped, the
\* others are taken once a message with that id has been seen
DrainLoop(q, after) ==
  LET first == IF Matches(q, after) = {} THEN Len(q) + 1
               ELSE CHOOSE i \in Matches(q, after) : \A j \in Matches(q, after) : i <= j
      keep  == {i \in 1 .. Len(q) : i > first /\ q[i].ID # after}
      RECURSIVE Collect(_)
      Collect(i) == IF i > Len(q) THEN <<>>
                    ELSE IF i \in keep THEN <<q[i]>> \o Collect(i + 1)
                    ELSE Collect(i + 1)
  IN  Collect(1)

\* Inbox.Drain
Drain(q, after) == IF after = "" THEN q ELSE DrainLoop(q, after)

NoStream == [pc |-> "none", to |-> "n1", wire |-> reset, msg |-> zeroMessage,
             local |-> <<>>]

\* (at is history: how many pushes had taken effect when the drain copied)
IReqIdle == [pc |-> "idle", node |-> "n1", after |-> "", out |-> <<>>, at |-> 0]

\* a peer has opened a chat stream to node n, written w and closed it; the
\* streams are numbered in the order they are accepted
InboundStream(k, n, w) ==
  /\ streams[k].pc = "none"
  /\ \A j \in 1 .. k - 1 : streams[j].pc # "none"
  /\ streams' = [streams EXCEPT ![k] = [@ EXCEPT !.pc = "closed", !.to = n, !.wire = w]]
  /\ UNCHANGED <<queue, imu, ireq, pushOrder>>
  /\ UNCHANGED <<dirVars, nodeVars>>

\* the stream handler up to inbox.Push: ReadAll, Unmarshal
handlerRead(k) ==
  /\ streams[k].pc = "closed"
  /\ LET rd == ReadAll(streams[k].wire)
         um == Unmarshal(rd.data)
     IN  IF rd.err \/ um.err
           THEN streams' = [streams EXCEPT ![k].pc = "dropped"]
           ELSE streams' = [streams EXCEPT ![k] = [@ EXCEPT !.pc = "push_lock",
                                                            !.msg = um.msg]]
  /\ UNCHANGED <<queue, imu, ireq, pushOrder>>
  /\ UNCHANGED <<dirVars, nodeVars>>

\* Inbox.Push: i.mu.Lock()
pushLock(k) ==
  /\ streams[k].pc = "push_lock"
  /\ CanLockInbox(imu[streams[k].to])
  /\ imu' = [imu EXCEPT ![streams[k].to] = TRUE]
  /\ streams' = [streams EXCEPT ![k].pc = "push_load"]
  /\ UNCHANGED <<queue, ireq, pushOrder>>
  /\ UNCHANGED <<dirVars, nodeVars>>

\* Inbox.Push: append reads i.queue
pushLoad(k) ==
  /\ streams[k].pc = "push_load"
  /\ streams' = [streams EXCEPT ![k] = [@ EXCEPT !.pc = "push_store",
                                                 !.local = queue[streams[k].to]]]
  /\ UNCHANGED <<queue, imu, ireq, pushOrder>>
  /\ UNCHANGED <<dirVars, nodeVars>>

\* Inbox.Push: the appended slice is stored in i.queue; the deferred Unlock
pushStore(k) ==
  /\ streams[k].pc = "push_store"
  /\ queue' = [queue EXCEPT ![streams[k].to] = Push(streams[k].local, streams[k].msg)]
  /\ imu' = [imu EXCEPT ![streams[k].to] = FALSE]
  /\ pushOrder' = [pushOrder EXCEPT ![streams[k].to] = Append(@, k)]
  /\ streams' = [streams EXCEPT ![k] = [@ EXCEPT !.pc = "pushed", !.local = <<>>]]
  /\ UNCHANGED ireq
  /\ UNCHANGED <<dirVars, nodeVars>>

\* GET /inbox: after := c.Query("after"); the requests are numbered in the
\* order they arrive
InboxRecv(d, n, after) ==
  /\ ireq[d].pc = "idle"
  /\ \A j \in 1 .. d - 1 : ireq[j].pc # "idle"
  /\ ireq' = [ireq EXCEPT ![d] = [@ EXCEPT !.pc = "drain_lock", !.node = n,
                                           !.after = after]]
  /\ UNCHANGED <<queue, imu, streams, pushOrder>>
  /\ UNCHANGED <<dirVars, nodeVars>>

\* Inbox.Drain: i.mu.Lock()
drainLock(d) ==
  /\ ireq[d].pc = "drain_lock"
  /\ CanLockInbox(imu[ireq[d].node])
  /\ imu' = [imu EXCEPT ![ireq[d].node] = TRUE]
  /\ ireq' = [ireq EXCEPT ![d].pc = "drain_copy"]
  /\ UNCHANGED <<queue, streams, pushOrder>>
  /\ UNCHANGED <<dirVars, nodeVars>>

\* Inbox.Drain: the copy or the loop, the deferred Unlock, and c.JSON(200, ...)
drainCopy(d) ==
  /\ ireq[d].pc = "drain_copy"
  /\ ireq' = [ireq EXCEPT ![d] = [@ EXCEPT !.pc = "done",
                                           !.out = Drain(queue[ireq[d].node], ireq[d].after),
                                           !.at = Len(pushOrder[ireq[d].node])]]
  /\ imu' = [imu EXCEPT ![ireq[d].node] = FALSE]
  /\ UNCHANGED <<queue, streams, pushOrder>>
  /\ UNCHANGED <<dirVars, nodeVars>>

\* ------------------------------------------------------- node: main, send
\* MYNAMEIS of each node process
username == [n \in Nodes |-> IF n = "n1" THEN alice ELSE bob]

\* h.ID(): the peer identity libp2p.New generated (the raw multihash)
hostID == [n \in Nodes |-> IF n = "n1" THEN "id1" ELSE "id2"]

\* h.Addrs(): the listen addresses of the host
hostAddrs == [n \in Nodes |-> IF n = "n1" THEN <<"/ip4/1">> ELSE <<"/ip4/2">>]

\* peer.ID.String(): the text encoding of a peer identity
String(id) == "Qm" \o id

\* the peer identities with a text encoding in this model ("id9": of no node)
RawIDs == {"id1", "id2", "id9"}

\* peer.Decode(s)
Decode(s) ==
  IF \E id \in RawIDs : String(id) = s
    THEN [err |-> FALSE, id |-> CHOOSE id \in RawIDs : String(id) = s]
    ELSE [err |-> TRUE, id |-> ""]

\* main: addrs = each a.Encapsulate("/p2p/" + peerIDStr), as strings
registeredAddrs(n) ==
  [i \in 1 .. Len(hostAddrs[n]) |-> hostAddrs[n][i] \o "/p2p/" \o String(hostID[n])]

\* the record main registers for node n
ownRecord(n) == record(String(hostID[n]), registeredAddrs(n))

SendIdle == [pc |-> "idle", node |-> "n1", to |-> NoName, content |-> "",
             peer |-> "", status |-> 0, id |-> ""]

\* -------------------------------------------- directory: whole handlers
\* POST /register as one step: [status, data]
registerHandler(d, bindOK, name, peer_id, addrs) ==
  IF ~bindOK \/ ~registerValid(name, peer_id)
    THEN [status |-> 400, data |-> d]
    ELSE [status |-> 200, data |-> set(d, name, record(peer_id, addrs))]

\* GET /lookup as one step: the response
lookupHandler(d, name) ==
  IF name = NoName THEN [status |-> 400, peer_id |-> "", addrs |-> <<>>]
  ELSE lookupResp(get(d, name))

\* ------------------------------------------------ node: DirectoryClient
\* the pieces that end a JSON string written with "%s" and no escaping
JSONSpecial == {"\"", "\\"}

\* fmt.Sprintf(`{"username":"%s",...}`) yields a body BindJSON accepts
bodyParses(name) == \A i \in 1 .. Len(name) : name[i] \notin JSONSpecial

\* the pieces that end the value of a query parameter in a URL
QuerySpecial == {"&", "#"}

\* BaseURL + "/lookup?username=" + username, as the directory's
\* c.Query("username") reads it: the value ends at the first "&" or "#"
queryValue(name) ==
  LET cut == {i \in 1 .. Len(name) : name[i] \in QuerySpecial}
  IN  IF cut = {} THEN name
      ELSE SubSeq(name, 1, (CHOOSE i \in cut : \A j \in cut : i <= j) - 1)

\* a register call that reports success without calling the directory
RegisterIgnoringError(dirUp, d, name, peerID, addrs) == [err |-> FALSE, data |-> d]

\* DirectoryClient.Register: [err, data]; dirUp: the HTTP call got an answer
Register(dirUp, d, name, peerID, addrs) ==
  IF ~dirUp THEN [err |-> TRUE, data |-> d]
  ELSE LET h == registerHandler(d, bodyParses(name), name, peerID, addrs)
       IN  [err |-> h.status # 200, data |-> h.data]

\* DirectoryClient.Lookup: [err, peerID, addrs]
Lookup(dirUp, d, name) ==
  IF ~dirUp THEN [err |-> TRUE, peerID |-> "", addrs |-> <<>>]
  ELSE LET resp == lookupHandler(d, queryValue(name))
       IN  IF resp.status # 200 THEN [err |-> TRUE, peerID |-> "", addrs |-> <<>>]
           ELSE [err |-> FALSE, peerID |-> resp.peer_id, addrs |-> resp.addrs]

\* POST /register from a client that is no node, as one step
ClientRegister(name, pb) ==
  /\ LET h == registerHandler(data, TRUE, name, pb.peer_id, pb.addrs)
     IN  /\ data' = h.data
         /\ lastReg' = IF h.status # 200 THEN lastReg
                       ELSE (name :> record(pb.peer_id, pb.addrs)) @@ lastReg
  /\ UNCHANGED <<mu, dreq, inboxVars, nodeVars>>

\* --------------------------------------------------------- node: main
\* main: libp2p.New (log.Fatal on error), dht.New (error only logged)
NewHost(n, ok) ==
  /\ node[n].pc = "new"
  /\ node' = [node EXCEPT ![n].pc = IF ok THEN "host" ELSE "exited"]
  /\ UNCHANGED <<dirVars, inboxVars, sends, nextId>>

\* main: inbox := &Inbox{}; h.SetStreamHandler(ChatProtocolID, ...)
SetStreamHandler(n) ==
  /\ node[n].pc = "host"
  /\ node' = [node EXCEPT ![n].pc = "handler"]
  /\ UNCHANGED <<dirVars, inboxVars, sends, nextId>>

\* a main that registers before it installs the stream handler
RegisterNodeEarly(n, dirUp) ==
  /\ node[n].pc = "host"
  /\ username[n] \notin DOMAIN data.m
  /\ LET r == Register(dirUp, data, username[n], String(hostID[n]), registeredAddrs(n))
     IN  /\ data' = r.data
         /\ lastReg' = IF r.err THEN lastReg
                       ELSE (username[n] :> ownRecord(n)) @@ lastReg
         /\ node' = [node EXCEPT ![n].pc = IF r.err THEN "exited" ELSE "host"]
  /\ UNCHANGED <<mu, dreq, inboxVars, sends, nextId>>

\* main: dir.Register(username, peerIDStr, addrs); log.Fatal on error
RegisterNode(n, dirUp) ==
  /\ node[n].pc = "handler"
  /\ LET r == Register(dirUp, data, username[n], String(hostID[n]), registeredAddrs(n))
     IN  /\ data' = r.data
         /\ lastReg' = IF r.err THEN lastReg
                       ELSE (username[n] :> ownRecord(n)) @@ lastReg
         /\ node' = [node EXCEPT ![n].pc = IF r.err THEN "exited" ELSE "registered"]
  /\ UNCHANGED <<mu, dreq, inboxVars, sends, nextId>>

\* main: bootstrap peers (BOOTSTRAP_ADDRS is empty), r.Run(listenHTTP);
\* log.Fatal when the API cannot listen
RunAPI(n, ok) ==
  /\ node[n].pc = "registered"
  /\ node' = [node EXCEPT ![n].pc = IF ok THEN "serving" ELSE "exited"]
  /\ UNCHANGED <<dirVars, inboxVars, sends, nextId>>

\* a transport on which every host, ended or not, accepts chat streams
AcceptsAlways(m) == TRUE

\* the host is up and has the chat stream handler installed
Accepts(m) == node[m].pc \in {"handler", "registered", "serving"}

\* ----------------------------------------------------- node: POST /send
\* an id generator that repeats itself
uuidFixed(k) == "0"

\* uuid.NewString(): the k-th id
uuid(k) == ToString(k)

\* POST /send: msg := proto.ChatMessage{ID, FromUser: username, ToUser, Content}
chatMessage(id, n, to, content) == ChatMessage(id, username[n], to, content)

\* a handler that takes the Inbox lock of its node when it accepts a request
SendRecvLocking(s, n, bindOK, to, content) ==
  /\ node[n].pc = "serving"
  /\ sends[s].pc = "idle"
  /\ \A j \in 1 .. s - 1 : sends[j].pc # "idle"
  /\ ~imu[n]
  /\ imu' = [imu EXCEPT ![n] = TRUE]
  /\ sends' = [sends EXCEPT ![s] =
       [@ EXCEPT !.pc = "lookup", !.node = n, !.to = to, !.content = content]]
  /\ UNCHANGED <<dirVars, queue, streams, ireq, pushOrder, node, nextId>>

\* POST /send: c.BindJSON(&body); the requests are numbered as they arrive
SendRecv(s, n, bindOK, to, content) ==
  /\ node[n].pc = "serving"
  /\ sends[s].pc = "idle"
  /\ \A j \in 1 .. s - 1 : sends[j].pc # "idle"
  /\ sends' = [sends EXCEPT ![s] =
       IF bindOK
         THEN [@ EXCEPT !.pc = "lookup", !.node = n, !.to = to, !.content = content]
         ELSE [@ EXCEPT !.pc = "done", !.node = n, !.status = 400]]
  /\ UNCHANGED <<dirVars, inboxVars, node, nextId>>

\* POST /send: dir.Lookup (404 on any error), peer.Decode (400 on error)
SendLookup(s, dirUp) ==
  /\ sends[s].pc = "lookup"
  /\ LET l  == Lookup(dirUp, data, sends[s].to)
         pi == Decode(l.peerID)
     IN  sends' = [sends EXCEPT ![s] =
           IF l.err THEN [@ EXCEPT !.pc = "done", !.status = 404]
           ELSE IF pi.err THEN [@ EXCEPT !.pc = "done", !.status = 400]
           ELSE [@ EXCEPT !.pc = "open", !.peer = pi.id]]
  /\ UNCHANGED <<dirVars, inboxVars, node, nextId>>

\* a handler that looks the recipient up again when the stream does not open
SendOpenRetrying(s, ok) ==
  /\ sends[s].pc = "open"
  /\ sends' = [sends EXCEPT ![s].pc = "lookup"]
  /\ UNCHANGED <<dirVars, inboxVars, node, nextId>>

\* POST /send: h.Connect (result ignored), h.NewStream (500 on error). A
\* stream opens only to another host that is up with the handler installed;
\* it may fail (5 s timeout, no route) even then.
SendOpen(s, ok) ==
  /\ sends[s].pc = "open"
  /\ IF ok
       THEN \E m \in Nodes :
              /\ m # sends[s].node /\ hostID[m] = sends[s].peer /\ Accepts(m)
              /\ streams' = [streams EXCEPT ![s] = [@ EXCEPT !.pc = "open", !.to = m]]
              /\ sends' = [sends EXCEPT ![s].pc = "write"]
       ELSE /\ sends' = [sends EXCEPT ![s] = [@ EXCEPT !.pc = "done", !.status = 500]]
            /\ UNCHANGED streams
  /\ UNCHANGED <<dirVars, queue, imu, ireq, pushOrder, node, nextId>>

\* POST /send: the message is built and written, the reply sent, and the
\* deferred s.Close() ends the stream; a failed write leaves undecodable bytes
SendWrite(s, ok) ==
  /\ sends[s].pc = "write"
  /\ nextId' = nextId + 1
  /\ LET msg == chatMessage(uuid(nextId + 1), sends[s].node, sends[s].to, sends[s].content)
     IN  IF ok
           THEN /\ streams' = [streams EXCEPT ![s] = [@ EXCEPT !.pc = "closed",
                                                               !.wire = Marshal(msg)]]
                /\ sends' = [sends EXCEPT ![s] = [@ EXCEPT !.pc = "done", !.status = 200,
                                                           !.id = msg.ID]]
           ELSE /\ streams' = [streams EXCEPT ![s] = [@ EXCEPT !.pc = "closed",
                                                               !.wire = garbage]]
                /\ sends' = [sends EXCEPT ![s] = [@ EXCEPT !.pc = "done", !.status = 500]]
  /\ UNCHANGED <<dirVars, queue, imu, ireq, pushOrder, node>>

\* the chat stream handler as one step: ReadAll, Unmarshal, inbox.Push
HandleStream(k) ==
  /\ streams[k].pc = "closed"
  /\ node[streams[k].to].pc # "exited"
  /\ LET rd == ReadAll(streams[k].wire)
         um == Unmarshal(rd.data)
         n  == streams[k].to
     IN  IF rd.err \/ um.err
           THEN /\ streams' = [streams EXCEPT ![k].pc = "dropped"]
                /\ UNCHANGED <<queue, pushOrder>>
           ELSE /\ streams' = [streams EXCEPT ![k] = [@ EXCEPT !.pc = "pushed",
                                                               !.msg = um.msg]]
                /\ queue' = [queue EXCEPT ![n] = Push(@, um.msg)]
                /\ pushOrder' = [pushOrder EXCEPT ![n] = Append(@, k)]
  /\ UNCHANGED <<dirVars, imu, ireq, nodeVars>>

\* GET /inbox as one step: c.JSON(200, inbox.Drain(after)); the reply is
\* InboxReply(n, after) and no state of the node changes
InboxReply(n, after) == Drain(queue[n], after)

GetInbox(n, after) ==
  /\ node[n].pc = "serving"
  /\ UNCHANGED vars

\* GET /me as one step: c.JSON(200, {username, peer_id: string(h.ID()), addrs});
\* string(h.ID()) is the identity's raw bytes, addrs the slice main registered
MeReply(n) ==
  [status |-> 200, username |-> username[n], peer_id |-> hostID[n],
   addrs |-> registeredAddrs(n)]

GetMe(n) ==
  /\ node[n].pc = "serving"
  /\ UNCHANGED vars

\* --------------------------------------------------------- specifications
\* the node whose Inbox SpecInbox exercises
InboxNode == "n2"

\* message ids and cursors of SpecInbox ("9" is the id of no message)
InboxIDs == {"1", "2"}
InboxCursors == {"", "1", "9"}

\* what a peer may deliver on a stream in SpecInbox
InboxWires ==
  { Marshal(ChatMessage(id, alice, bob, "hi")) : id \in InboxIDs }
    \cup {garbage, reset}

\* the state in which the directory process starts, and in which node
\* InboxNode serves (its main has registered it) with an empty Inbox
InitDirectory ==
  /\ data = memStore.data
  /\ mu = memStore.mu
  /\ dreq = [r \in DReqs |-> DReqIdle]
  /\ lastReg = <<>>
  /\ queue = [n \in Nodes |-> Inbox.queue]
  /\ imu = [n \in Nodes |-> Inbox.mu]
  /\ streams = [k \in Streams |-> NoStream]
  /\ ireq = [d \in Drains |-> IReqIdle]
  /\ pushOrder = [n \in Nodes |-> <<>>]
  /\ node = [n \in Nodes |-> [pc |-> "new"]]
  /\ sends = [s \in Sends |-> SendIdle]
  /\ nextId = 0

NextDirectory ==
  \E r \in DReqs :
    \/ \E bindOK \in BOOLEAN, u \in UsernameInputs, pb \in PeerBodies :
         RegisterRecv(r, bindOK, u, pb)
    \/ setLock(r)
    \/ setAssign(r)
    \/ setUnlock(r)
    \/ \E u \in UsernameInputs : LookupRecv(r, u)
    \/ getRLock(r)
    \/ getRead(r)

SpecDirectory == InitDirectory /\ [][NextDirectory]_vars

InitInbox ==
  /\ data = set(memStore.data, username[InboxNode], ownRecord(InboxNode))
  /\ mu = memStore.mu
  /\ dreq = [r \in DReqs |-> DReqIdle]
  /\ lastReg = (username[InboxNode] :> ownRecord(InboxNode))
  /\ queue = [n \in Nodes |-> Inbox.queue]
  /\ imu = [n \in Nodes |-> Inbox.mu]
  /\ streams = [k \in Streams |-> NoStream]
  /\ ireq = [d \in Drains |-> IReqIdle]
  /\ pushOrder = [n \in Nodes |-> <<>>]
  /\ node = [n \in Nodes |-> [pc |-> IF n = InboxNode THEN "serving" ELSE "new"]]
  /\ sends = [s \in Sends |-> SendIdle]
  /\ nextId = 0

NextInbox ==
  \/ \E k \in Streams :
       \/ \E w \in InboxWires : InboundStream(k, InboxNode, w)
       \/ handlerRead(k)
       \/ pushLock(k)
       \/ pushLoad(k)
       \/ pushStore(k)
  \/ \E d \in Drains :
       \/ \E after \in InboxCursors : InboxRecv(d, InboxNode, after)
       \/ drainLock(d)
       \/ drainCopy(d)

SpecInbox == InitInbox /\ [][NextInbox]_vars

\* usernames and contents a POST /send body may carry
bobAmp == <<"bob", "&", "x">>
SendTargets == {bob, carol, bobAmp}
Contents == {"hi"}

\* what a client other than a node may register: a peer id that is no
\* encoding of a peer identity
ClientNames == {carol}
ClientBodies == { [peer_id |-> "bogus", addrs |-> <<>>] }

Init ==
  /\ data = memStore.data
  /\ mu = memStore.mu
  /\ dreq = [r \in DReqs |-> DReqIdle]
  /\ lastReg = <<>>
  /\ queue = [n \in Nodes |-> Inbox.queue]
  /\ imu = [n \in Nodes |-> Inbox.mu]
  /\ streams = [k \in Streams |-> NoStream]
  /\ ireq = [d \in Drains |-> IReqIdle]
  /\ pushOrder = [n \in Nodes |-> <<>>]
  /\ node = [n \in Nodes |-> [pc |-> "new"]]
  /\ sends = [s \in Sends |-> SendIdle]
  /\ nextId = 0

Next ==
  \/ \E name \in ClientNames, pb \in ClientBodies : ClientRegister(name, pb)
  \/ \E n \in Nodes :
       \/ \E ok \in BOOLEAN : NewHost(n, ok)
       \/ SetStreamHandler(n)
       \/ \E dirUp \in BOOLEAN : RegisterNode(n, dirUp)
       \/ \E ok \in BOOLEAN : RunAPI(n, ok)
  \/ \E s \in Sends :
       \/ \E n \in Nodes, bindOK \in BOOLEAN, to \in SendTargets, c \in Contents :
            SendRecv(s, n, bindOK, to, c)
       \/ \E dirUp \in BOOLEAN : SendLookup(s, dirUp)
       \/ \E ok \in BOOLEAN : SendOpen(s, ok)
       \/ \E ok \in BOOLEAN : SendWrite(s, ok)
       \/ HandleStream(s)
  \/ \E n \in Nodes, after \in InboxCursors : GetInbox(n, after)
  \/ \E n \in Nodes : GetMe(n)

Spec == Init /\ [][Next]_vars

\* Both nodes serve (their mains have registered them) with empty inboxes;
\* their /send handlers, stream handlers and GET /inbox handlers run as
\* concurrent goroutines, the inbox operations one step per lock operation /
\* memory access; one GET /inbox request is made, to node InboxNode.
NodeTargets == {alice, bob}

InitNode ==
  /\ data = set(set(memStore.data, username["n1"], ownRecord("n1")),
                username["n2"], ownRecord("n2"))
  /\ mu = memStore.mu
  /\ dreq = [r \in DReqs |-> DReqIdle]
  /\ lastReg = (username["n1"] :> ownRecord("n1")) @@ (username["n2"] :> ownRecord("n2"))
  /\ queue = [n \in Nodes |-> Inbox.queue]
  /\ imu = [n \in Nodes |-> Inbox.mu]
  /\ streams = [k \in Streams |-> NoStream]
  /\ ireq = [d \in Drains |-> IReqIdle]
  /\ pushOrder = [n \in Nodes |-> <<>>]
  /\ node = [n \in Nodes |-> [pc |-> "serving"]]
  /\ sends = [s \in Sends |-> SendIdle]
  /\ nextId = 0

NextNode ==
  \/ \E s \in Sends :
       \/ \E n \in Nodes, bindOK \in BOOLEAN, to \in NodeTargets, c \in Contents :
            SendRecv(s, n, bindOK, to, c)
       \/ \E dirUp \in BOOLEAN : SendLookup(s, dirUp)
       \/ \E ok \in BOOLEAN : SendOpen(s, ok)
       \/ \E ok \in BOOLEAN : SendWrite(s, ok)
  \/ \E k \in Streams :
       \/ handlerRead(k)
       \/ pushLock(k)
       \/ pushLoad(k)
       \/ pushStore(k)
  \/ \E d \in {1} :
       \/ InboxRecv(d, InboxNode, "")
       \/ drainLock(d)
       \/ drainCopy(d)

SpecNode == InitNode /\ [][NextNode]_vars

\* The Go scheduler runs every runnable goroutine: the handler of a stream
\* whose sender has closed it, on a node that is up, reads and pushes.
Fairness == \A k \in Streams : WF_vars(HandleStream(k))

FairSpec == Init /\ [][Next]_vars /\ Fairness

\* ------------------------------------------------- claims on the directory
IsRegister(q) == q.op = "register"
IsLookup(q) == q.op = "lookup"
\* request r takes its getRead step (the map read of a lookup) in this step
ReadsNow(r) == dreq[r].pc = "get_read" /\ dreq'[r].pc = "done"
respOf(rec) == [status |-> 200, peer_id |-> rec.PeerID, addrs |-> rec.Addrs]

\* C1: a lookup of U returns exactly the (peer_id, addrs) of the most recent
\* register of U that took effect: the record is fully replaced, never merged.
C1_LookupReturnsLastRegister ==
  [][\A r \in DReqs :
       (ReadsNow(r) /\ dreq[r].username \in DOMAIN lastReg)
         => dreq'[r].resp = respOf(lastReg[dreq[r].username])]_vars

\* two registers of one username with different pairs are done, and a lookup of
\* it returned the later pair
C1_Witness ==
  \E r1, r2, r3 \in DReqs :
    /\ r1 # r2
    /\ IsRegister(dreq[r1]) /\ dreq[r1].resp.status = 200
    /\ IsRegister(dreq[r2]) /\ dreq[r2].resp.status = 200
    /\ dreq[r1].username = dreq[r2].username
    /\ dreq[r1].peer_id # dreq[r2].peer_id
    /\ IsLookup(dreq[r3]) /\ dreq[r3].username = dreq[r1].username
    /\ dreq[r3].resp = respOf(lastReg[dreq[r1].username])
    /\ dreq[r3].resp.peer_id = dreq[r2].peer_id

\* C2: a lookup answers 404 exactly when no register of that username has taken
\* effect so far.
C2_NotFoundIffNeverRegistered ==
  [][\A r \in DReqs :
       ReadsNow(r) =>
         ((dreq'[r].resp.status = 404) <=> (dreq[r].username \notin DOMAIN lastReg))]_vars

\* one lookup of a username answered 404 and another, after a register, 200
C2_Witness ==
  \E r1, r2 \in DReqs :
    /\ IsLookup(dreq[r1]) /\ dreq[r1].resp.status = 404
    /\ IsLookup(dreq[r2]) /\ dreq[r2].resp.status = 200
    /\ dreq[r1].username = dreq[r2].username

\* C3: a register with an empty username or peer_id is answered 400 and leaves
\* the map unchanged: every lookup reads the same before and after it.
C3_EmptyFieldRejected ==
  [][\A r \in DReqs :
       (/\ dreq[r].pc = "idle"
        /\ IsRegister(dreq'[r])
        /\ (dreq'[r].username = NoName \/ dreq'[r].peer_id = ""))
         => /\ dreq'[r].pc = "done"
            /\ dreq'[r].resp.status = 400
            /\ \A u \in UsernameInputs : get(data', u) = get(data, u)]_vars

\* a register with an empty peer_id was rejected while the map held a record
C3_Witness ==
  \E r \in DReqs :
    /\ IsRegister(dreq[r]) /\ dreq[r].username # NoName /\ dreq[r].peer_id = ""
    /\ dreq[r].resp.status = 400
    /\ DOMAIN data.m # {}

\* C4: every successful lookup returns a pair exactly as some register of that
\* username sent it, never a mixture of two registers or a half-written record.
C4_NoTornRecord ==
  \A r \in DReqs :
    (IsLookup(dreq[r]) /\ dreq[r].resp.status = 200)
      => \E w \in DReqs :
           /\ IsRegister(dreq[w]) /\ dreq[w].username = dreq[r].username
           /\ dreq[r].resp.peer_id = dreq[w].peer_id
           /\ dreq[r].resp.addrs = dreq[w].addrs

\* a register is half-way through its write (the map holds the new peer id with
\* the old addresses) while a lookup of the same username waits for the lock
C4_Witness ==
  \E w, r \in DReqs :
    /\ dreq[w].pc = "set_assign2"
    /\ data.m[dreq[w].username].Addrs # dreq[w].addrs
    /\ data.m[dreq[w].username].Addrs # <<>>
    /\ dreq[r].pc = "get_rlock" /\ dreq[r].username = dreq[w].username

\* C5: registers on distinct usernames do not interfere: a step changes the
\* record of a username only if it is a set of a request for that username, and
\* a lookup of a username with one (completed) register reads that register's pair.
C5_NoCrossKeyInterference ==
  [][/\ \A u \in UsernameInputs :
          get(data', u) # get(data, u)
            => \E w \in DReqs : /\ dreq[w].username = u
                                /\ dreq[w].pc \in {"set_assign", "set_assign2"}
                                /\ dreq'[w].pc # dreq[w].pc
     /\ \A r, w \in DReqs :
          (/\ ReadsNow(r)
           /\ IsRegister(dreq[w]) /\ dreq[w].resp.status = 200
           /\ dreq[w].username = dreq[r].username
           /\ \A x \in DReqs : (IsRegister(dreq[x]) /\ dreq[x].username = dreq[r].username)
                                  => x = w)
            => dreq'[r].resp = respOf(record(dreq[w].peer_id, dreq[w].addrs))]_vars

\* registers of two distinct usernames are done and a lookup returned the pair
\* of the one registered first
C5_Witness ==
  \E r1, r2, r3 \in DReqs :
    /\ IsRegister(dreq[r1]) /\ dreq[r1].resp.status = 200
    /\ IsRegister(dreq[r2]) /\ dreq[r2].resp.status = 200
    /\ dreq[r1].username # dreq[r2].username
    /\ DOMAIN data.m = {dreq[r1].username, dreq[r2].username}
    /\ IsLookup(dreq[r3]) /\ dreq[r3].username = dreq[r1].username
    /\ dreq[r3].resp = respOf(record(dreq[r1].peer_id, dreq[r1].addrs))

\* ----------------------------------------------------- claims on the Inbox
\* request d takes its drainCopy step (the copy/loop of a drain) in this step
DrainsNow(d) == ireq[d].pc = "drain_copy" /\ ireq'[d].pc = "done"
\* the messages of the pushes to n that have taken effect, in that order
PushedMsgs(n) == [i \in 1 .. Len(pushOrder[n]) |-> streams[pushOrder[n][i]].msg]
\* q1 is a prefix of q2
IsPrefix(q1, q2) == Len(q1) <= Len(q2) /\ SubSeq(q2, 1, Len(q1)) = q1
\* the messages strictly after the first one with the id `after`
AfterFirst(q, after) ==
  IF Matches(q, after) = {} THEN <<>>
  ELSE LET first == CHOOSE i \in Matches(q, after) : \A j \in Matches(q, after) : i <= j
       IN  SubSeq(q, first + 1, Len(q))

\* C6: under every interleaving of pushes and drains, drain("") returns the
\* messages of the completed pushes, each once, in the order the pushes took
\* effect, and nothing else.
C6_DrainAllIsPushOrder ==
  [][\A d \in Drains :
       (DrainsNow(d) /\ ireq[d].after = "")
         => /\ ireq'[d].out = PushedMsgs(ireq[d].node)
            /\ \A k \in Streams :
                 (streams[k].pc = "pushed" /\ streams[k].to = ireq[d].node)
                   <=> Cardinality({i \in 1 .. Len(pushOrder[ireq[d].node]) :
                                      pushOrder[ireq[d].node][i] = k}) = 1]_vars

\* a drain("") returned two messages whose pushes took effect in the opposite
\* order of their streams' arrival
C6_Witness ==
  \E d \in Drains :
    /\ ireq[d].pc = "done" /\ ireq[d].after = ""
    /\ pushOrder[ireq[d].node] = <<2, 1>>
    /\ ireq[d].out = <<streams[2].msg, streams[1].msg>>
    /\ streams[1].msg.ID # streams[2].msg.ID

\* C7 (as claimed): drain(afterId), afterId non-empty, returns all messages
\* strictly after the first message with that id, and the empty sequence when
\* no message or only the last one has it.
C7_DrainAfterFirstOccurrence ==
  [][\A d \in Drains :
       (DrainsNow(d) /\ ireq[d].after # "")
         => ireq'[d].out = AfterFirst(queue[ireq[d].node], ireq[d].after)]_vars

\* C7, where the ids in the inbox are pairwise distinct: the code returns the
\* messages after the one with the cursor's id, and nothing when there is none
C7_DrainAfterUniqueId ==
  [][\A d \in Drains :
       (/\ DrainsNow(d) /\ ireq[d].after # ""
        /\ Cardinality(Matches(queue[ireq[d].node], ireq[d].after)) <= 1)
         => ireq'[d].out = AfterFirst(queue[ireq[d].node], ireq[d].after)]_vars

\* C8: the inbox is append-only and drain does not consume: every step keeps
\* the old sequence as a prefix, a drain leaves it unchanged, and two drains
\* with the same cursor and no push in between return the same result.
C8_AppendOnlyNonConsuming ==
  /\ [][/\ \A n \in Nodes : IsPrefix(queue[n], queue'[n])
        /\ \A d \in Drains : ireq'[d] # ireq[d] => queue' = queue]_vars
  /\ [](\A d1, d2 \in Drains :
          (/\ ireq[d1].pc = "done" /\ ireq[d2].pc = "done"
           /\ ireq[d1].node = ireq[d2].node
           /\ ireq[d1].after = ireq[d2].after
           /\ ireq[d1].at = ireq[d2].at)
            => ireq[d1].out = ireq[d2].out)

\* two drains with the same cursor returned the same non-empty result and the
\* messages are still in the inbox, after which a further push took effect
C8_Witness ==
  \E d1, d2 \in Drains :
    /\ d1 # d2
    /\ ireq[d1].pc = "done" /\ ireq[d2].pc = "done"
    /\ ireq[d1].after = ireq[d2].after /\ ireq[d1].at = ireq[d2].at
    /\ ireq[d1].out # <<>> /\ ireq[d1].out = ireq[d2].out
    /\ IsPrefix(ireq[d1].out, queue[ireq[d1].node])
    /\ Len(queue[ireq[d1].node]) > Len(ireq[d1].out)

\* ------------------------------------------------ claims on the whole system
\* the message send s wrote is in the inbox of the node its stream went to,
\* exactly once, with the sender's username, the requested recipient and
\* content, and a drain("") of that node returns it
Delivered(s) ==
  LET n   == streams[s].to
      msg == ChatMessage(sends[s].id, username[sends[s].node], sends[s].to,
                         sends[s].content)
      at  == {i \in 1 .. Len(queue[n]) : queue[n][i].ID = sends[s].id}
      got == InboxReply(n, "")
  IN  /\ Cardinality(at) = 1
      /\ \A i \in at : queue[n][i] = msg
      /\ Cardinality({i \in 1 .. Len(got) : got[i] = msg}) = 1

Sent(s) == sends[s].pc = "done" /\ sends[s].status = 200

\* C9: every send that succeeded is, unless the recipient's node went down,
\* eventually in the recipient's inbox: one new message with the requested
\* content, from_user the sender's username and to_user the recipient, which
\* drain("") returns; in particular from alice's node to bob. (A send that
\* succeeded stays so, hence "from some point on, every send that succeeded
\* is delivered" says that each one eventually is.)
C9_SentIsDelivered ==
  /\ [][\A s \in Sends : Sent(s) => Sent(s)']_vars
  /\ <>[](\A s \in Sends :
            Sent(s) => (Delivered(s) \/ node[streams[s].to].pc = "exited"))

\* alice's node sent "hi" to bob, and bob's node, serving, has it in its inbox
C9_Witness ==
  \E s \in Sends :
    /\ Sent(s) /\ username[sends[s].node] = alice /\ sends[s].to = bob
    /\ sends[s].content = "hi"
    /\ username[streams[s].to] = bob /\ node[streams[s].to].pc = "serving"
    /\ Delivered(s)
    /\ InboxReply(streams[s].to, "") =
         <<ChatMessage(sends[s].id, alice, bob, "hi")>>

\* request s takes its lookup step in this step
LooksUpNow(s) == sends[s].pc = "lookup" /\ sends'[s].pc # "lookup"

\* C10 (as claimed): a send to a username with no directory record is answered
\* 404, opens no stream, writes no message and changes no inbox.
C10_UnknownRecipientIs404 ==
  [][\A s \in Sends :
       (LooksUpNow(s) /\ sends[s].to \notin DOMAIN data.m)
         => /\ sends'[s].pc = "done" /\ sends'[s].status = 404
            /\ streams' = streams /\ queue' = queue]_vars

\* C10 for a username without "&" or "#": no record, so 404 and nothing else
C10_PlainUnknownRecipientIs404 ==
  [][\A s \in Sends :
       (/\ LooksUpNow(s) /\ sends[s].to \notin DOMAIN data.m
        /\ queryValue(sends[s].to) = sends[s].to)
         => /\ sends'[s].pc = "done" /\ sends'[s].status = 404
            /\ streams' = streams /\ queue' = queue]_vars

\* request s is answered in this step
AnswersNow(s) == sends[s].pc # "done" /\ sends'[s].pc = "done"

\* the directory holds a record for the recipient of s whose peer_id decodes
HasRecord(s) == sends[s].to \in DOMAIN data.m
Undecodable(s) == HasRecord(s) /\ Decode(data.m[sends[s].to].PeerID).err

\* C11 (as claimed): the status of /send tells the class of the step that
\* failed: 404 exactly when the directory has no record for the recipient,
\* 400 exactly on a malformed body or an undecodable peer identity, 500
\* exactly on a stream-open or write failure, 200 only when lookup, open and
\* write succeeded; a directory that cannot be reached is not answered 404.
C11_StatusReflectsErrorClass ==
  [][\A s \in Sends :
       AnswersNow(s) =>
         /\ sends'[s].status = 404 <=> (sends[s].pc = "lookup" /\ ~HasRecord(s))
         /\ sends'[s].status = 400 <=>
              (sends[s].pc = "idle" \/ (sends[s].pc = "lookup" /\ Undecodable(s)))
         /\ sends'[s].status = 500 <=>
              (sends[s].pc = "open" \/
                 (sends[s].pc = "write" /\ streams'[s].wire = garbage))
         /\ sends'[s].status = 200 =>
              (sends[s].pc = "write" /\ streams'[s].wire.kind = "json")]_vars

\* C11, the part the handler keeps: each status is given only at its step
\* (404 at the lookup, 400 at the body or at the decoding of a looked-up
\* peer_id, 500 at the open or the write, 200 after a written message)
C11_StatusOnlyAtItsStep ==
  [][\A s \in Sends :
       AnswersNow(s) =>
         /\ sends'[s].status \in {200, 400, 404, 500}
         /\ sends'[s].status = 404 => sends[s].pc = "lookup"
         /\ sends'[s].status = 400 =>
              (sends[s].pc = "idle" \/
                 (sends[s].pc = "lookup" /\ queryValue(sends[s].to) \in DOMAIN data.m
                    /\ Decode(data.m[queryValue(sends[s].to)].PeerID).err))
         /\ sends'[s].status = 500 <=>
              (sends[s].pc = "open" \/
                 (sends[s].pc = "write" /\ streams'[s].wire = garbage))
         /\ sends'[s].status = 200 =>
              (sends[s].pc = "write" /\ streams'[s].wire.kind = "json")]_vars

\* -------------------------------------------- claims on inbound streams
\* the payload of stream k cannot be read, or is no ChatMessage document
Malformed(k) == streams[k].wire \in {garbage, reset}

\* the handler of stream k takes its read-and-decode step in this step
HandlesNow(k) == streams[k].pc = "closed" /\ streams'[k].pc # "closed"

\* the goroutine holding the Inbox lock of node n, if any, is inside Push or
\* Drain
LockHeldByWorker(n) ==
  imu[n] =>
    \/ \E k \in Streams : streams[k].to = n /\ streams[k].pc \in {"push_load", "push_store"}
    \/ \E d \in Drains : ireq[d].node = n /\ ireq[d].pc = "drain_copy"

\* C12: a stream whose payload cannot be read or decoded is dropped: its
\* handler changes no inbox and answers nothing, it never pushes later, and
\* it leaves the handler working: every other accepted stream can still be
\* read, a well-formed one goes on to Push with its message, its Push can
\* take the lock whenever no Push or Drain is inside it, and its store
\* appends that message to the inbox.
C12_MalformedStreamDropped ==
  /\ [][\A k \in Streams :
          /\ (HandlesNow(k) /\ Malformed(k))
               => /\ streams'[k].pc = "dropped"
                  /\ queue' = queue /\ imu' = imu /\ nodeVars' = nodeVars
                  /\ \A j \in Streams \ {k} : streams'[j] = streams[j]
          /\ (HandlesNow(k) /\ ~Malformed(k))
               => /\ streams'[k].pc = "push_lock"
                  /\ streams'[k].msg = streams[k].wire.msg
          /\ streams[k].pc = "dropped" => streams'[k] = streams[k]
          /\ (streams[k].pc = "push_store" /\ streams'[k].pc = "pushed")
               => queue'[streams[k].to] =
                    Append(queue[streams[k].to], streams[k].wire.msg)]_vars
  /\ [](\A k \in Streams :
          /\ streams[k].pc = "closed" => ENABLED handlerRead(k)
          /\ (streams[k].pc = "push_lock" /\ ~imu[streams[k].to])
               => ENABLED pushLock(k)
          /\ streams[k].pc = "dropped"
               => \A i \in 1 .. Len(pushOrder[streams[k].to]) :
                    pushOrder[streams[k].to][i] # k)
  /\ [](\A n \in Nodes : LockHeldByWorker(n))

\* an undecodable stream was dropped and a well-formed stream accepted after
\* it was appended: the inbox holds exactly that message
C12_Witness ==
  \E k1, k2 \in Streams :
    /\ k1 < k2
    /\ streams[k1].pc = "dropped" /\ streams[k1].wire = garbage
    /\ streams[k2].pc = "pushed" /\ streams[k2].wire.kind = "json"
    /\ streams[k1].to = streams[k2].to
    /\ queue[streams[k2].to] = <<streams[k2].wire.msg>>

\* ------------------------------------------------- claims on the lifecycle
\* the directory holds the record node n registers
OwnRecordStored(n) ==
  username[n] \in DOMAIN data.m /\ data.m[username[n]] = ownRecord(n)

\* C13: a node goes Bootstrapping -> Registered -> Serving in that order
\* only. It becomes Registered only by a register call that succeeded (its
\* record is in the directory), Serving only from Registered; a register
\* call that fails ends the process, which never serves; and the API accepts
\* a request only on a node that is Serving.
C13_LifecycleOrder ==
  [][/\ \A n \in Nodes :
          /\ (node'[n].pc = "registered" /\ node[n].pc # "registered")
               => (node[n].pc = "handler" /\ OwnRecordStored(n)')
          /\ (node'[n].pc = "serving" /\ node[n].pc # "serving")
               => (node[n].pc = "registered" /\ OwnRecordStored(n))
          /\ (node[n].pc = "handler" /\ node'[n].pc # "handler" /\ ~OwnRecordStored(n)')
               => node'[n].pc = "exited"
          /\ node[n].pc = "exited" => node'[n].pc = "exited"
     /\ \A s \in Sends :
          (sends[s].pc = "idle" /\ sends'[s].pc # "idle")
            => (node[sends'[s].node].pc = "serving" /\ OwnRecordStored(sends'[s].node))]_vars

\* one node registered, serves and has accepted a /send, while the other
\* node's process has ended and left no record
C13_Witness ==
  \E n, m \in Nodes, s \in Sends :
    /\ node[n].pc = "serving" /\ OwnRecordStored(n)
    /\ sends[s].pc # "idle" /\ sends[s].node = n
    /\ node[m].pc = "exited" /\ username[m] \notin DOMAIN data.m

\* C14 (as claimed): on a serving node, GET /me reports the peer_id and the
\* addrs the node registered, i.e. what a lookup of its username returns
\* while the record is the node's own.
C14_MeEqualsRegistered ==
  \A n \in Nodes :
    (node[n].pc = "serving" /\ OwnRecordStored(n))
      => /\ MeReply(n).peer_id = lookupHandler(data, username[n]).peer_id
         /\ MeReply(n).addrs = lookupHandler(data, username[n]).addrs

\* C14, what the handler keeps: the addrs are the registered ones, and the
\* peer_id is the identity whose text encoding was registered
C14_MeIsDecodedRegistered ==
  \A n \in Nodes :
    (node[n].pc = "serving" /\ OwnRecordStored(n))
      => /\ MeReply(n).addrs = lookupHandler(data, username[n]).addrs
         /\ ~Decode(lookupHandler(data, username[n]).peer_id).err
         /\ MeReply(n).peer_id = Decode(lookupHandler(data, username[n]).peer_id).id

\* the position of a /send request in its handler
Rank(pc) ==
  CASE pc = "idle" -> 0 [] pc = "lookup" -> 1 [] pc = "open" -> 2
    [] pc = "write" -> 3 [] pc = "done" -> 4

\* C15: a serving node stays serving whatever fails in a request or in an
\* inbound stream, and nothing is retried: a /send request only moves
\* forward (so it makes at most one lookup, one stream open and one write),
\* an answered request is final, its stream is opened once and written once,
\* and it builds at most one message.
C15_ServingSurvivesNoRetry ==
  [][/\ \A n \in Nodes : node[n].pc = "serving" => node'[n].pc = "serving"
     /\ \A s \in Sends :
          /\ sends'[s] # sends[s] => Rank(sends'[s].pc) > Rank(sends[s].pc)
          /\ sends[s].pc = "done" => sends'[s] = sends[s]
          /\ (streams'[s].pc = "open" /\ streams[s].pc # "open")
               => (sends[s].pc = "open" /\ streams[s].pc = "none")
          /\ streams'[s].wire # streams[s].wire
               => (sends[s].pc = "write" /\ streams[s].pc = "open")
          /\ streams[s].pc # "none" => streams'[s].to = streams[s].to
     /\ nextId' # nextId
          => /\ nextId' = nextId + 1
             /\ Cardinality({s \in Sends : sends[s].pc = "write" /\ sends'[s].pc = "done"}) = 1]_vars

\* on serving nodes one /send failed at the write (500) and its undecodable
\* bytes were dropped by the receiver, and another /send was refused
C15_Witness ==
  \E s1, s2 \in Sends :
    /\ sends[s1].pc = "done" /\ sends[s1].status = 500
    /\ streams[s1].pc = "dropped"
    /\ node[sends[s1].node].pc = "serving" /\ node[streams[s1].to].pc = "serving"
    /\ sends[s2].pc = "done" /\ sends[s2].status \in {400, 404}
    /\ node[sends[s2].node].pc = "serving"

\* --------------------------------------------------- claims on the message
\* the message a successful send s wrote, as the claim describes it
Receipt(s) ==
  ChatMessage(sends[s].id, username[sends[s].node], sends[s].to, sends[s].content)

\* C16: a send answered 200 has written exactly one ChatMessage on its one
\* stream: the id returned is the id of the message written, from_user is the
\* sending node's username, to_user and content are the requested ones, and
\* the id differs from the id of every other message written or returned.
C16_OneMessagePerSend ==
  /\ [](\A s \in Sends :
          Sent(s) =>
            /\ streams[s].pc \in {"closed", "pushed", "dropped"}
            /\ streams[s].wire = Marshal(Receipt(s))
            /\ \A t \in Sends \ {s} :
                 /\ Sent(t) => sends[t].id # sends[s].id
                 /\ streams[t].wire.kind = "json"
                      => streams[t].wire.msg.ID # sends[s].id)
  /\ [][\A s \in Sends :
          (AnswersNow(s) /\ sends'[s].status = 200)
            => /\ streams[s].pc = "open" /\ streams[s].wire.kind # "json"
               /\ \A t \in Sends \ {s} : streams'[t] = streams[t]
               /\ \A n \in Nodes : \A i \in 1 .. Len(queue[n]) :
                    queue[n][i].ID # sends'[s].id]_vars

\* one node sent two messages, both answered 200, with different ids
C16_Witness ==
  \E s, t \in Sends :
    /\ s # t /\ Sent(s) /\ Sent(t) /\ sends[s].node = sends[t].node
    /\ streams[s].wire = Marshal(Receipt(s)) /\ streams[t].wire = Marshal(Receipt(t))
    /\ sends[s].id # sends[t].id

\* ------------------------------------------ claims on a node's concurrency
\* /send request s has been accepted and is not answered yet
InFlight(s) == sends[s].pc \in {"lookup", "open", "write"}

\* C17: a /send in flight on a node never holds that node's Inbox lock and
\* keeps no inbox operation of the node from going on: no step of a send
\* changes a lock or a queue, and while a send of node n is in flight the
\* lock of n is held, if at all, by a Push or Drain that can finish, every
\* closed inbound stream of n can be read, every Push and Drain of n that
\* waits for the lock can take it when it is free, and every Push or Drain
\* inside the lock can take its next step.
C17_SendNeverBlocksInbox ==
  /\ [][\A s \in Sends : sends'[s] # sends[s] => (imu' = imu /\ queue' = queue)]_vars
  /\ [](\A n \in Nodes :
          (\E s \in Sends : InFlight(s) /\ sends[s].node = n) =>
            /\ LockHeldByWorker(n)
            /\ \A k \in Streams :
                 streams[k].to = n =>
                   /\ streams[k].pc = "closed" => ENABLED handlerRead(k)
                   /\ (streams[k].pc = "push_lock" /\ ~imu[n]) => ENABLED pushLock(k)
                   /\ streams[k].pc = "push_load" => ENABLED pushLoad(k)
                   /\ streams[k].pc = "push_store" => ENABLED pushStore(k)
            /\ \A d \in Drains :
                 ireq[d].node = n =>
                   /\ (ireq[d].pc = "drain_lock" /\ ~imu[n]) => ENABLED drainLock(d)
                   /\ ireq[d].pc = "drain_copy" => ENABLED drainCopy(d))

\* bob's node accepted a /send that is still waiting for the directory;
\* since then a message from alice's node was sent, pushed into bob's inbox
\* and returned by a drain
C17_Witness ==
  /\ sends[1].node = InboxNode /\ sends[1].pc = "lookup"
  /\ Sent(2) /\ streams[2].to = InboxNode /\ streams[2].pc = "pushed"
  /\ ireq[1].node = InboxNode /\ ireq[1].pc = "done"
  /\ ireq[1].out = <<Receipt(2)>>

\* ------------------------------------------------ claims on stale records
\* the directory, when it answers, finds a record for username u
LookupSucceeds(u) == lookupHandler(data, u).status = 200

\* the record of username u names the identity of a node whose process ended
Stale(u) ==
  /\ LookupSucceeds(u)
  /\ \E n \in Nodes : node[n].pc = "exited" /\ data.m[u].PeerID = String(hostID[n])

C19_HandlerBeforeRecord ==
  /\ [](\A n \in Nodes :
          (OwnRecordStored(n) /\ node[n].pc # "exited") => Accepts(n))
  /\ [][\A n \in Nodes :
          (~OwnRecordStored(n) /\ OwnRecordStored(n)') => node[n].pc = "handler"]_vars
  /\ [][\A s \in Sends :
          (streams'[s].pc = "open" /\ streams[s].pc = "none")
            => (OwnRecordStored(streams'[s].to) /\ Accepts(streams'[s].to))]_vars

\* a node is registered and its API is not up yet, and a peer that looked it
\* up has opened a chat stream to it
C19_Witness ==
  \E s \in Sends :
    /\ streams[s].pc # "none"
    /\ node[streams[s].to].pc = "registered"
    /\ OwnRecordStored(streams[s].to)
    /\ sends[s].peer = hostID[streams[s].to]

\* ------------------------------------------------ claims on the recipient
\* every record of the directory was written by the bootstrap registration
\* of a node: its own username with its own peer identity and addresses
OnlyBootstrapRecords ==
  \A u \in DOMAIN data.m : \E n \in Nodes : u = username[n] /\ data.m[u] = ownRecord(n)

\* C20 (as claimed): while the directory holds bootstrap registrations only,
\* every message in a node's inbox has to_user equal to that node's username.
C20_InboxOnlyOwnMessages ==
  OnlyBootstrapRecords =>
    \A n \in Nodes : \A i \in 1 .. Len(queue[n]) : queue[n][i].ToUser = username[n]

\* C20, what the send path keeps: the to_user of every message in a node's
\* inbox is a username that the directory reads, from the lookup URL, as the
\* node's own
C20_InboxOnlyLookedUpAsOwn ==
  OnlyBootstrapRecords =>
    \A n \in Nodes : \A i \in 1 .. Len(queue[n]) :
      queryValue(queue[n][i].ToUser) = username[n]

=============================================================================
